---- MODULE Spec2Model ----
(***************************************************************************)
(* A model of qiskit/transpiler/passmanager.py: the PassManager, the       *)
(* pass sets it stores, and the runs it drives.                            *)
(*                                                                         *)
(* Python values are records with one shape, so that values of different   *)
(* Python types can sit in the same list:                                  *)
(*   [kind, name, passes, flow_controllers]                                *)
(* kind is the Python type ("BasePass", "FlowController", "list",          *)
(* "object"); passes is the content of a list or of a flow controller.     *)
(***************************************************************************)
EXTENDS Integers, Sequences, FiniteSets, TLC

\* Bounds of the model.
MaxSets == 2      \* most pass sets a manager holds
MaxIter == 2      \* largest iteration ceiling given to a manager
MaxCircuits == 2  \* most graphs given to one parallel map
MaxOps == 2       \* most operations of a circuit given to a scheduling pass
MaxReps == 2      \* largest max_reps an AdaptQAOA solver is built with
MaxCalls == 2     \* most calls of compute_minimum_eigenvalue on one solver

None == "None"

---------------------------------------------------------------------------
(* Values *)

NoFlow == [condition |-> None, do_while |-> None]

BasePass(n) ==
    [kind |-> "BasePass", name |-> n, passes |-> <<>>, flow_controllers |-> NoFlow]

\* Any Python object that is neither a BasePass nor a FlowController.
Object(n) ==
    [kind |-> "object", name |-> n, passes |-> <<>>, flow_controllers |-> NoFlow]

FlowController(ps, fl) ==
    [kind |-> "FlowController", name |-> "", passes |-> ps, flow_controllers |-> fl]

List(ps) ==
    [kind |-> "list", name |-> "", passes |-> ps, flow_controllers |-> NoFlow]

\* The passes of the model: A writes the graph and increments the counter of
\* the property set, B writes the graph only, X raises when it is run.
PassA == BasePass("A")
PassB == BasePass("B")
PassX == BasePass("X")
Junk == Object("junk")

Condition(p) == [condition |-> p, do_while |-> None]
DoWhile(p) == [condition |-> None, do_while |-> p]

\* A property set holds one counter. A manager that has not run yet holds no
\* property set (Python's None). fresh tells the objects apart: it holds of a
\* property set created during the call in progress, and of no older one.
NoPropertySet == [exists |-> FALSE, count |-> 0, fresh |-> FALSE]
PropertySet(n) == [exists |-> TRUE, count |-> n, fresh |-> TRUE]

\* A program graph: its name and the operations the passes wrote to it.
Circuit(n) == [name |-> n, ops |-> <<>>]

\* A manager: the fields PassManager.__init__ sets.
Manager(sets, ceiling, props) ==
    [pass_sets |-> sets, max_iteration |-> ceiling, property_set |-> props]

\* What a call gives back: the manager after it and the exception it raised.
Outcome(self, raised) == [self |-> self, raised |-> raised]

VARIABLES
    pm,        \* the manager under test: [pass_sets, max_iteration, property_set]
    other,     \* a second manager, the right operand of +
    total,     \* the manager the last + returned, or NoManager
    call,      \* the last call made: its name and its arguments
    err,       \* the exception the last call raised, or None
    result,    \* what the last run returned
    graphs,    \* the program graphs of the last run, as the passes left them
    events,    \* the last run's pass executions and callback calls, in order
    fan,       \* the parallel map in progress: its tasks, one for each graph
    staged,    \* a StagedPassManager and the managers its slots refer to
    sched,     \* a scheduling pass: the circuit given and the circuits returned
    adapt      \* an AdaptQAOA solver and the last call made on it

vars ==
    <<pm, other, total, call, err, result, graphs, events, fan, staged, sched, adapt>>

---------------------------------------------------------------------------
(* PassManager: the pass sets *)

\* Python's truth value of the max_iteration argument: None and 0 are both
\* false, so the model writes the argument left out (None) as 0.
Truthy(max_iteration) == max_iteration # 0

PassSet(passes, flow_controller_conditions) ==
    [passes |-> passes, flow_controllers |-> flow_controller_conditions]

\* The list a Python index addresses, and the position it addresses:
\* index -1 is the last element.
IndexExists(index, n) == -n <= index /\ index < n
Position(index, n) == IF index >= 0 THEN index + 1 ELSE n + index + 1

RECURSIVE normalize_raises(_)
\* Whether _normalize_passes(passes) raises TranspilerError.
normalize_raises(passes) ==
    IF passes.kind = "FlowController" THEN FALSE
    ELSE LET items == IF passes.kind = "BasePass" THEN <<passes>> ELSE passes.passes
         IN  \E i \in DOMAIN items :
                IF items[i].kind = "FlowController"
                THEN normalize_raises(List(items[i].passes))
                ELSE items[i].kind # "BasePass"

normalize_passes(passes) ==
    IF normalize_raises(passes) THEN [raised |-> "TranspilerError", passes |-> passes]
    ELSE IF passes.kind = "BasePass" THEN [raised |-> None, passes |-> List(<<passes>>)]
    ELSE [raised |-> None, passes |-> passes]

PassManager_init(max_iteration) == Manager(<<>>, max_iteration, NoPropertySet)

append(self, passes, max_iteration, flow_controller_conditions) ==
    LET s1 == IF Truthy(max_iteration)
              THEN [self EXCEPT !.max_iteration = max_iteration] ELSE self
        n == normalize_passes(passes)
    IN  IF n.raised # None THEN Outcome(s1, n.raised)
        ELSE Outcome([s1 EXCEPT !.pass_sets =
                         Append(@, PassSet(n.passes, flow_controller_conditions))], None)

replace(self, index, passes, max_iteration, flow_controller_conditions) ==
    LET s1 == IF Truthy(max_iteration)
              THEN [self EXCEPT !.max_iteration = max_iteration] ELSE self
        n == normalize_passes(passes)
        len == Len(self.pass_sets)
    IN  IF n.raised # None THEN Outcome(s1, n.raised)
        ELSE IF ~IndexExists(index, len) THEN Outcome(s1, "TranspilerError")
        ELSE Outcome([s1 EXCEPT !.pass_sets[Position(index, len)] =
                         PassSet(n.passes, flow_controller_conditions)], None)

\* remove that takes the length of the list for a position of it.
remove_off_by_one(self, index) ==
    LET len == Len(self.pass_sets)
        at == Position(index, len)
    IN  IF ~(-len <= index /\ index <= len) THEN Outcome(self, "TranspilerError")
        ELSE Outcome([self EXCEPT !.pass_sets =
                         SubSeq(@, 1, at - 1) \o SubSeq(@, at + 1, len)], None)

remove(self, index) ==
    LET len == Len(self.pass_sets)
        at == Position(index, len)
    IN  IF ~IndexExists(index, len) THEN Outcome(self, "TranspilerError")
        ELSE Outcome([self EXCEPT !.pass_sets =
                         SubSeq(@, 1, at - 1) \o SubSeq(@, at + 1, len)], None)

---------------------------------------------------------------------------
(* The engine a run drives: RunningPassManager and its flow controllers.  *)
(* A run's state st is [ops, property_set, events, count, raised]: the    *)
(* graph's operations, the property set, the log of pass executions and   *)
(* callback calls, the execution count, and the exception raised.         *)

\* A flow-controller predicate, a function of the property set.
Pred(p, property_set) ==
    CASE p = "always" -> TRUE
      [] p = "never" -> FALSE
      [] p = "count_lt_1" -> property_set.count < 1
      [] OTHER -> FALSE

Event(ev, name, count, set, graph) ==
    [ev |-> ev, name |-> name, count |-> count, set |-> set, graph |-> graph]

\* One pass on the graph: the transformation, then the callback.
run_this_pass(pass_, st, callback, set, graph) ==
    LET ran == [st EXCEPT
                  !.ops = Append(@, pass_.name),
                  !.property_set.count = IF pass_.name = "A" THEN @ + 1 ELSE @,
                  !.events = Append(@, Event("pass", pass_.name, st.count, set, graph))]
    IN  IF pass_.name = "X" THEN [st EXCEPT !.raised = "PassError"]
        ELSE IF callback
        THEN [ran EXCEPT
                !.events = Append(@, Event("callback", pass_.name, st.count, set, graph)),
                !.count = @ + 1]
        ELSE [ran EXCEPT !.count = @ + 1]

\* The loop test of a DoWhile, waiting behind the passes of its iteration.
LoopTest(passes, predicate, iteration) ==
    [kind |-> "LoopTest", name |-> predicate, passes |-> passes,
     flow_controllers |-> NoFlow, iteration |-> iteration]

RECURSIVE run_passes(_, _, _, _, _, _)
\* The tree walk over Sequence, Conditional and DoWhile: todo is what is left
\* to run, its head first. Once a pass has raised nothing more runs.
\*   a pass: it runs;
\*   a Sequence: its elements in list order;
\*   a Conditional: its elements if the predicate holds on the property set,
\*     else nothing;
\*   a DoWhile: its elements, then the predicate on the property set as they
\*     left it, and again while it holds; it stops at the ceiling without
\*     raising.
run_passes(todo, st, callback, max_iteration, set, graph) ==
    IF todo = <<>> \/ st.raised # None THEN st
    ELSE LET pass_ == Head(todo)
             rest == Tail(todo)
             fc == pass_.flow_controllers
         IN  IF pass_.kind = "BasePass"
             THEN run_passes(rest, run_this_pass(pass_, st, callback, set, graph),
                             callback, max_iteration, set, graph)
             ELSE IF pass_.kind = "FlowController"
             THEN IF fc.do_while # None
                  THEN run_passes(pass_.passes
                                    \o <<LoopTest(pass_.passes, fc.do_while, 1)>> \o rest,
                                  st, callback, max_iteration, set, graph)
                  ELSE IF fc.condition # None /\ ~Pred(fc.condition, st.property_set)
                  THEN run_passes(rest, st, callback, max_iteration, set, graph)
                  ELSE run_passes(pass_.passes \o rest, st, callback, max_iteration,
                                  set, graph)
             ELSE IF pass_.kind = "LoopTest"
             THEN IF pass_.iteration < max_iteration /\ Pred(pass_.name, st.property_set)
                  THEN run_passes(pass_.passes
                                    \o <<LoopTest(pass_.passes, pass_.name,
                                                  pass_.iteration + 1)>> \o rest,
                                  st, callback, max_iteration, set, graph)
                  ELSE run_passes(rest, st, callback, max_iteration, set, graph)
             ELSE [st EXCEPT !.raised = "TranspilerError"]

\* One pass set under its policy: repeat-while, else condition, else once.
run_controller(passes, flow_controllers, st, callback, max_iteration, set, graph) ==
    run_passes(<<FlowController(passes, flow_controllers)>>, st, callback,
               max_iteration, set, graph)

\* RunningPassManager.append: a flow controller given as the passes carries its
\* own policy and the other parameters are ignored.
working_item(passes, flow_controllers) ==
    IF passes.kind = "FlowController"
    THEN PassSet(passes.passes, passes.flow_controllers)
    ELSE PassSet(passes.passes, flow_controllers)

RunningPassManager(max_iteration) ==
    [max_iteration |-> max_iteration, working_list |-> <<>>,
     property_set |-> PropertySet(0)]

RunningPassManager_append(running, passes, flow_controllers) ==
    [running EXCEPT !.working_list = Append(@, working_item(passes, flow_controllers))]

RECURSIVE run_working_list(_, _, _, _, _)
run_working_list(running, st, callback, set, graph) ==
    IF set > Len(running.working_list) THEN st
    ELSE run_working_list(running,
            run_controller(running.working_list[set].passes,
                           running.working_list[set].flow_controllers,
                           st, callback, running.max_iteration, set, graph),
            callback, set + 1, graph)

\* RunningPassManager.run: every pass set of the working list, in order, on
\* the graph. The result carries the output name when one is given.
RunningPassManager_run(running, circuit, output_name, callback, graph) ==
    LET st0 == [ops |-> circuit.ops, property_set |-> running.property_set,
                events |-> <<>>, count |-> 0, raised |-> None]
        st == run_working_list(running, st0, callback, 1, graph)
    IN  [raised |-> st.raised,
         circuit |-> [name |-> IF output_name = None THEN circuit.name ELSE output_name,
                      ops |-> st.ops],
         graph |-> [name |-> circuit.name, ops |-> st.ops],
         property_set |-> st.property_set,
         events |-> st.events]

---------------------------------------------------------------------------
(* PassManager: run *)

\* The circuits argument of run, and what run returns: one circuit, or a list.
OneCircuit(c) == [kind |-> "circuit", items |-> <<c>>]
CircuitList(cs) == [kind |-> "list", items |-> cs]
NoResult == [kind |-> "None", items |-> <<>>]

RunOutcome(self, raised, returned, programs, log) ==
    [self |-> self, raised |-> raised, result |-> returned, graphs |-> programs,
     events |-> log]

\* _create_running_passmanager with the pass sets taken last first.
create_running_passmanager_reversed(self) ==
    LET n == Len(self.pass_sets)
    IN  [max_iteration |-> self.max_iteration,
         working_list |-> [i \in 1..n |->
                              working_item(self.pass_sets[n + 1 - i].passes,
                                           self.pass_sets[n + 1 - i].flow_controllers)],
         property_set |-> PropertySet(0)]

\* _create_running_passmanager with the manager's ceiling left out.
create_running_passmanager_own_ceiling(self) ==
    [max_iteration |-> 1,
     working_list |-> [i \in 1..Len(self.pass_sets) |->
                          working_item(self.pass_sets[i].passes,
                                       self.pass_sets[i].flow_controllers)],
     property_set |-> PropertySet(0)]

\* _create_running_passmanager with the flow-controller parameters left out.
create_running_passmanager_without_flow(self) ==
    [max_iteration |-> self.max_iteration,
     working_list |-> [i \in 1..Len(self.pass_sets) |->
                          working_item(self.pass_sets[i].passes, NoFlow)],
     property_set |-> PropertySet(0)]

RECURSIVE append_pass_sets(_, _, _)
\* The loop of _create_running_passmanager from its i-th pass set on.
append_pass_sets(running_passmanager, pass_sets, i) ==
    IF i > Len(pass_sets) THEN running_passmanager
    ELSE append_pass_sets(RunningPassManager_append(running_passmanager,
                                                    pass_sets[i].passes,
                                                    pass_sets[i].flow_controllers),
                          pass_sets, i + 1)

create_running_passmanager(self) ==
    append_pass_sets(RunningPassManager(self.max_iteration), self.pass_sets, 1)

run_single_circuit(self, circuit, output_name, callback) ==
    LET running_passmanager == create_running_passmanager(self)
        r == RunningPassManager_run(running_passmanager, circuit, output_name, callback, 1)
    IN  IF r.raised # None
        THEN RunOutcome(self, r.raised, NoResult, <<r.graph>>, r.events)
        ELSE RunOutcome([self EXCEPT !.property_set = r.property_set], None,
                        OneCircuit(r.circuit), <<r.graph>>, r.events)

\* The task of the parallel map: a copy of the manager (dill) builds its own
\* running pass manager; no output name and no callback reach it.
in_parallel(circuit, pm_dill, graph) ==
    RunningPassManager_run(create_running_passmanager(pm_dill), circuit, None, FALSE, graph)

RECURSIVE all_events(_, _)
\* The logs of the tasks, one after the other.
all_events(rs, i) == IF i > Len(rs) THEN <<>> ELSE rs[i].events \o all_events(rs, i + 1)

\* parallel_map: the task on every value, the results in the order of the
\* values; a task's exception is the map's.
parallel_map(self, circuits) ==
    LET rs == [i \in 1..Len(circuits) |-> in_parallel(circuits[i], self, i)]
        failed == {i \in 1..Len(circuits) : rs[i].raised # None}
        first == CHOOSE i \in failed : \A j \in failed : i <= j
    IN  [raised |-> IF failed = {} THEN None ELSE rs[first].raised,
         results |-> [i \in 1..Len(circuits) |-> rs[i].circuit],
         graphs |-> [i \in 1..Len(circuits) |-> rs[i].graph],
         events |-> all_events(rs, 1)]

run_several_circuits(self, circuits, output_name, callback) ==
    LET m == parallel_map(self, circuits)
    IN  IF m.raised # None THEN RunOutcome(self, m.raised, NoResult, m.graphs, m.events)
        ELSE RunOutcome(self, None, CircuitList(m.results), m.graphs, m.events)

\* run without the early return for an empty manager.
run_without_early_return(self, circuits, output_name, callback) ==
    IF circuits.kind = "circuit"
    THEN run_single_circuit(self, circuits.items[1], output_name, callback)
    ELSE IF Len(circuits.items) = 1
    THEN run_single_circuit(self, circuits.items[1], output_name, callback)
    ELSE run_several_circuits(self, circuits.items, output_name, callback)

run(self, circuits, output_name, callback) ==
    IF self.pass_sets = <<>> /\ output_name = None /\ ~callback
    THEN RunOutcome(self, None, circuits, circuits.items, <<>>)
    ELSE IF circuits.kind = "circuit"
    THEN run_single_circuit(self, circuits.items[1], output_name, callback)
    ELSE IF Len(circuits.items) = 1
    THEN run_single_circuit(self, circuits.items[1], output_name, callback)
    ELSE run_several_circuits(self, circuits.items, output_name, callback)

\* __add__ that extends the left operand's own list.
add_in_place(self, rhs) ==
    [new |-> Manager(self.pass_sets \o rhs.pass_sets, self.max_iteration, NoPropertySet),
     self |-> [self EXCEPT !.pass_sets = @ \o rhs.pass_sets], other |-> rhs]

\* PassManager.__add__ with a PassManager on the right. It gives back the new
\* manager and leaves both operands as they were.
add(self, rhs) ==
    [new |-> Manager(self.pass_sets \o rhs.pass_sets, self.max_iteration, NoPropertySet),
     self |-> self, other |-> rhs]

\* No parallel map, no staged manager, no scheduling pass and no solver in
\* progress.
NoAdapt == [exists |-> FALSE]
NoFan ==
    [phase |-> "idle", pm_dill |-> PassManager_init(1), tasks |-> <<>>, finished |-> <<>>]
NoStaged == [exists |-> FALSE]
NoSched == [exists |-> FALSE]

---------------------------------------------------------------------------
(* The calls a client makes *)

NoPasses == List(<<>>)
NoCircuits == CircuitList(<<>>)

Call(op, index, passes, max_iteration, circuits, output_name, callback) ==
    [op |-> op, index |-> index, passes |-> passes, max_iteration |-> max_iteration,
     circuits |-> circuits, output_name |-> output_name, callback |-> callback]

\* Arguments the clients of the model give.
EditPasses ==
    { PassA,
      List(<<PassA, Junk>>),
      List(<<PassA, FlowController(<<PassB>>, NoFlow)>>),
      List(<<FlowController(<<Junk>>, NoFlow)>>),
      FlowController(<<Junk>>, NoFlow) }
EditFlows == { NoFlow, DoWhile("always") }

EditSets == {PassSet(passes, flow) : passes \in EditPasses, flow \in EditFlows}

RunSets ==
    { PassSet(List(<<PassA, PassB>>), NoFlow),
      PassSet(List(<<PassA, PassB>>), Condition("count_lt_1")),
      PassSet(List(<<PassA, PassB>>), Condition("never")),
      PassSet(List(<<PassA, PassB>>), DoWhile("always")),
      PassSet(List(<<PassB, PassX, PassA>>), NoFlow) }

Ceilings == 1..MaxIter
GivenCeilings == {0, 1, MaxIter}
Indexes == -(MaxSets + 1)..MaxSets

CircuitInputs ==
    { OneCircuit(Circuit("c1")), CircuitList(<<>>), CircuitList(<<Circuit("c1")>>),
      CircuitList(<<Circuit("c1"), Circuit("c2")>>) }
RunOptions ==
    { [output_name |-> None, callback |-> FALSE],
      [output_name |-> "out", callback |-> FALSE],
      [output_name |-> None, callback |-> TRUE] }

Init ==
    /\ pm \in {PassManager_init(m) : m \in Ceilings}
    /\ other = PassManager_init(1)
    /\ total = <<>>
    /\ call = Call("init", 0, NoPasses, 0, NoCircuits, None, FALSE)
    /\ err = None
    /\ result = NoResult
    /\ graphs = <<>>
    /\ events = <<>>
    /\ fan = NoFan
    /\ staged = NoStaged
    /\ sched = NoSched
    /\ adapt = NoAdapt

\* The manager as a call finds it: the property set it holds is an older one.
Before(self) == [self EXCEPT !.property_set.fresh = FALSE]

CallAppend(Sets, Given) ==
    \E set \in Sets, max_iteration \in Given :
        /\ Len(pm.pass_sets) < MaxSets
        /\ \E o \in {append(pm, set.passes, max_iteration, set.flow_controllers)} :
               /\ pm' = o.self
               /\ err' = o.raised
        /\ call' = Call("append", 0, set.passes, max_iteration, NoCircuits, None, FALSE)
        /\ total' = <<>> /\ result' = NoResult /\ graphs' = <<>> /\ events' = <<>>
        /\ UNCHANGED <<other, fan, staged, sched, adapt>>

CallReplace(Sets, Given) ==
    \E index \in Indexes, set \in Sets, max_iteration \in Given :
        /\ \E o \in {replace(pm, index, set.passes, max_iteration,
                                 set.flow_controllers)} :
               /\ pm' = o.self
               /\ err' = o.raised
        /\ call' = Call("replace", index, set.passes, max_iteration, NoCircuits, None,
                         FALSE)
        /\ total' = <<>> /\ result' = NoResult /\ graphs' = <<>> /\ events' = <<>>
        /\ UNCHANGED <<other, fan, staged, sched, adapt>>

CallRemove(Where) ==
    \E index \in Where :
        /\ \E o \in {remove(pm, index)} :
               /\ pm' = o.self
               /\ err' = o.raised
        /\ call' = Call("remove", index, NoPasses, 0, NoCircuits, None, FALSE)
        /\ total' = <<>> /\ result' = NoResult /\ graphs' = <<>> /\ events' = <<>>
        /\ UNCHANGED <<other, fan, staged, sched, adapt>>

CallRun ==
    \E circuits \in CircuitInputs, opt \in RunOptions :
        /\ \E o \in {run(Before(pm), circuits, opt.output_name, opt.callback)} :
               /\ pm' = o.self
               /\ err' = o.raised
               /\ result' = o.result
               /\ graphs' = o.graphs
               /\ events' = o.events
        /\ call' = Call("run", 0, NoPasses, 0, circuits, opt.output_name, opt.callback)
        /\ total' = <<>>
        /\ UNCHANGED <<other, fan, staged, sched, adapt>>

CallOtherAppend(Sets, Given) ==
    \E set \in Sets, max_iteration \in Given :
        /\ Len(other.pass_sets) < MaxSets
        /\ \E o \in {append(other, set.passes, max_iteration, set.flow_controllers)} :
               /\ other' = o.self
               /\ err' = o.raised
        /\ call' = Call("other.append", 0, set.passes, max_iteration, NoCircuits, None,
                         FALSE)
        /\ total' = <<>> /\ result' = NoResult /\ graphs' = <<>> /\ events' = <<>>
        /\ UNCHANGED <<pm, fan, staged, sched, adapt>>

CallAdd ==
    \E o \in {add(pm, other)} :
        /\ pm' = o.self
        /\ other' = o.other
        /\ total' = <<o.new>>
        /\ err' = None
        /\ call' = Call("add", 0, NoPasses, 0, NoCircuits, None, FALSE)
        /\ result' = NoResult /\ graphs' = <<>> /\ events' = <<>>
        /\ UNCHANGED <<fan, staged, sched, adapt>>

\* Runs of a manager built by append and remove.
Next == CallAppend(RunSets, {0, 1}) \/ CallRemove({0}) \/ CallRun
Spec == Init /\ [][Next]_vars

\* The pass sets of a manager under append, replace and remove.
NextEdit ==
    \/ CallAppend(EditSets, GivenCeilings)
    \/ CallReplace(EditSets, GivenCeilings)
    \/ CallRemove(Indexes)
SpecEdit == Init /\ [][NextEdit]_vars

\* The sum of two managers built by append.
AddSets ==
    { PassSet(PassA, NoFlow),
      PassSet(List(<<PassA, PassB>>), DoWhile("always")),
      PassSet(List(<<PassA, Junk>>), NoFlow) }
NextAdd ==
    \/ CallAppend(AddSets, {0, 1})
    \/ CallOtherAppend(AddSets, {0, MaxIter})
    \/ CallAdd
SpecAdd == Init /\ [][NextAdd]_vars

---------------------------------------------------------------------------
(* Properties of a run *)

\* The pass executions of the last run on its g-th graph, in order.
PassEvents(g) == SelectSeq(events, LAMBDA e : e.ev = "pass" /\ e.graph = g)
Names(es) == [i \in 1..Len(es) |-> es[i].name]

\* How often the last run executed pass name of pass set k on its g-th graph.
Executions(g, k, name) ==
    Len(SelectSeq(events,
                  LAMBDA e : e.ev = "pass" /\ e.graph = g /\ e.set = k /\ e.name = name))

\* The counter of the property set when the run on graph g reached pass set k.
CountBefore(g, k) ==
    Len(SelectSeq(events,
                  LAMBDA e : e.ev = "pass" /\ e.graph = g /\ e.set < k /\ e.name = "A"))

\* The passes of the k-th pass set, in list order.
PassList(k) == pm.pass_sets[k].passes.passes
FlowOf(k) == pm.pass_sets[k].flow_controllers

\* The run on graph g got as far as the end of pass set k.
Passed(g, k) ==
    err = None \/ \E i \in 1..Len(events) : events[i].graph = g /\ events[i].set > k

\* b is the pass that list order puts after a, in a's pass set or, from the
\* end of a list, at the head of the same list (a loop) or of a later one.
Follows(a, b) ==
    /\ a.set \in 1..Len(pm.pass_sets)
    /\ b.set \in 1..Len(pm.pass_sets)
    /\ \E p \in 1..Len(PassList(a.set)) :
          /\ PassList(a.set)[p].name = a.name
          /\ \/ /\ p < Len(PassList(a.set))
                /\ b.set = a.set
                /\ PassList(a.set)[p + 1].name = b.name
             \/ /\ p = Len(PassList(a.set))
                /\ b.set >= a.set
                /\ PassList(b.set)[1].name = b.name

\* C1: run on a manager with zero pass sets, given no output name and no
\* callback, returns its input as it is, a graph or a list: no pass executes,
\* nothing is raised and the graphs are as they were given.
C1_EmptyRunIsIdentity ==
    (call.op = "run" /\ pm.pass_sets = <<>> /\ call.output_name = None /\ ~call.callback)
        => /\ err = None
           /\ result = call.circuits
           /\ graphs = call.circuits.items
           /\ events = <<>>

C1_Witness ==
    /\ call.op = "run" /\ pm.pass_sets = <<>>
    /\ call.output_name = None /\ ~call.callback
    /\ call.circuits.kind = "list" /\ Len(call.circuits.items) = 1
    /\ result = call.circuits

\* C2: a run executes the pass sets in append order and the passes of a set in
\* list order, and the graph holds what every executed pass wrote. When a pass
\* fails the run raises and returns nothing, the last pass executed is the one
\* before the failing pass, and what the passes before it wrote is in the graph.
C2_OrderAndAbort ==
    call.op = "run" =>
        /\ err \in {None, "PassError"}
        /\ \A g \in 1..Len(graphs) :
              LET es == PassEvents(g)
              IN  /\ es # <<>> => es[1].set \in 1..Len(pm.pass_sets)
                               /\ PassList(es[1].set)[1].name = es[1].name
                  /\ \A i \in 1..(Len(es) - 1) : Follows(es[i], es[i + 1])
                  /\ graphs[g].ops = Names(es)
                  /\ err = None =>
                        \A k \in 1..Len(pm.pass_sets) :
                            FlowOf(k) = NoFlow =>
                                \A p \in 1..Len(PassList(k)) :
                                    Executions(g, k, PassList(k)[p].name) = 1
                  /\ err = "PassError" =>
                        /\ result = NoResult
                        /\ es # <<>>
                        /\ Follows(es[Len(es)],
                                   [name |-> "X", set |-> es[Len(es)].set])

C2_Witness ==
    /\ call.op = "run" /\ err = "PassError"
    /\ Len(pm.pass_sets) = 2
    /\ PassList(1) = <<PassA, PassB>> /\ FlowOf(1) = NoFlow
    /\ PassList(2) = <<PassB, PassX, PassA>>
    /\ Len(graphs) = 1
    /\ graphs[1].ops = <<"A", "B", "B">>

\* C3: a pass set whose repeat-while predicate is always true is executed
\* exactly as often as the ceiling of the manager says, never more; reaching
\* the ceiling raises nothing and the next pass set runs.
C3_DoWhileStopsAtCeiling ==
    call.op = "run" =>
        /\ err # "TranspilerError"
        /\ \A g \in 1..Len(graphs), k \in 1..Len(pm.pass_sets) :
              (FlowOf(k).do_while = "always" /\ Passed(g, k)) =>
                  /\ \A p \in 1..Len(PassList(k)) :
                        Executions(g, k, PassList(k)[p].name) = pm.max_iteration
                  /\ (k < Len(pm.pass_sets) /\ FlowOf(k + 1) = NoFlow) =>
                        Executions(g, k + 1, PassList(k + 1)[1].name) = 1

C3_Witness ==
    /\ call.op = "run" /\ err = None
    /\ pm.max_iteration = MaxIter
    /\ Len(pm.pass_sets) = 2
    /\ FlowOf(1).do_while = "always" /\ FlowOf(2) = NoFlow
    /\ Len(graphs) = 1
    /\ Executions(1, 1, "A") = MaxIter
    /\ Executions(1, 2, "A") = 1

\* C4: a pass set whose condition is false on the property set the run has
\* reached it with executes none of its passes, so the counter and the graph
\* pass through it unchanged, and the pass set after it still runs; a pass set
\* whose condition is true runs once.
C4_FalseConditionSkips ==
    call.op = "run" =>
        /\ \A g \in 1..Len(graphs), k \in 1..Len(pm.pass_sets) :
              LET holds == Pred(FlowOf(k).condition, PropertySet(CountBefore(g, k)))
                  ran == \E i \in 1..Len(events) :
                            events[i].graph = g /\ events[i].set = k
              IN  FlowOf(k).condition # None =>
                      /\ ~holds => ~ran
                      /\ (holds /\ Passed(g, k)) => Executions(g, k, "A") = 1
                      /\ (~holds /\ err = None /\ k < Len(pm.pass_sets)
                            /\ FlowOf(k + 1) = NoFlow) =>
                              Executions(g, k + 1, PassList(k + 1)[1].name) = 1
        /\ (err = None /\ pm.property_set.fresh) =>
              pm.property_set.count = CountBefore(1, Len(pm.pass_sets) + 1)

C4_Witness ==
    /\ call.op = "run" /\ err = None
    /\ Len(pm.pass_sets) = 2
    /\ FlowOf(1).condition = "never" /\ FlowOf(2) = NoFlow
    /\ Len(graphs) = 1
    /\ graphs[1].ops = <<"A", "B">>
    /\ Executions(1, 1, "A") = 0
    /\ pm.property_set = PropertySet(1)

\* C6: when run is given a callback, the callback is called once right after
\* every pass execution, before the next pass, with a count that grows with
\* every call; for one graph and for a list of graphs.
C6_CallbackAfterEachPass ==
    (call.op = "run" /\ call.callback) =>
        /\ \A i \in 1..Len(events) :
              events[i].ev = "pass" =>
                  /\ i < Len(events)
                  /\ events[i + 1] = [events[i] EXCEPT !.ev = "callback"]
        /\ \A i, j \in 1..Len(events) :
              (i < j /\ events[i].ev = "callback" /\ events[j].ev = "callback"
                 /\ events[i].graph = events[j].graph) => events[i].count < events[j].count

\* C10: after a run returns, the property set the manager holds is the one
\* that run created and filled: it is never the property set an earlier run
\* left.
C10_NoStalePropertySet ==
    (call.op = "run" /\ err = None /\ pm.property_set.exists) => pm.property_set.fresh

---------------------------------------------------------------------------
(* Properties of the pass sets *)

\* The ceiling a run of the manager applies to its k-th pass set.
CeilingOf(self, k) == create_running_passmanager(self).max_iteration

\* C5: the ceiling given to an append or a replace bounds the pass set of that
\* call only: every pass set the call leaves in place keeps the ceiling it had.
C5_CeilingIsPerPassSet ==
    [][ (call'.op \in {"append", "replace"} /\ err' = None) =>
            \A k \in 1..Len(pm.pass_sets) :
                (call'.op = "replace" => k # Position(call'.index, Len(pm.pass_sets)))
                    => CeilingOf(pm', k) = CeilingOf(pm, k) ]_vars

RECURSIVE OnlyPasses(_)
\* Every element of x, at any depth, is a Pass or a Flow Controller.
OnlyPasses(x) ==
    \/ x.kind = "BasePass"
    \/ /\ x.kind \in {"FlowController", "list"}
       /\ \A i \in 1..Len(x.passes) : OnlyPasses(x.passes[i])

\* C7: every element of every stored pass set, at any depth, is a Pass or a
\* Flow Controller, and an append or replace given anything else raises a
\* configuration error.
C7_OnlyPassesStored ==
    /\ \A k \in 1..Len(pm.pass_sets) : OnlyPasses(pm.pass_sets[k].passes)
    /\ (call.op \in {"append", "replace"} /\ ~OnlyPasses(call.passes))
           => err = "TranspilerError"

\* C8 as claimed: replace and remove raise a configuration error for every
\* index outside 0..n-1 and leave the pass sets as they were.
C8_IndexOutsideZeroToN ==
    [][ (call'.op \in {"replace", "remove"}
           /\ (call'.index < 0 \/ call'.index >= Len(pm.pass_sets)))
            => (err' = "TranspilerError" /\ pm'.pass_sets = pm.pass_sets) ]_vars

\* C8, amended: replace and remove raise a configuration error for every index
\* below -n or above n-1 and leave the pass sets as they were; an index from
\* -n to -1 counts from the end, and with valid passes the call goes through.
C8_MissingIndexRaises ==
    [][ (call'.op \in {"replace", "remove"}) =>
            /\ (call'.index < -Len(pm.pass_sets) \/ call'.index >= Len(pm.pass_sets))
                  => (err' = "TranspilerError" /\ pm'.pass_sets = pm.pass_sets)
            /\ (call'.index >= -Len(pm.pass_sets) /\ call'.index < 0
                  /\ OnlyPasses(call'.passes))
                  => err' = None ]_vars

C8_Witness ==
    /\ call.op = "replace" /\ err = "TranspilerError"
    /\ OnlyPasses(call.passes)
    /\ Len(pm.pass_sets) = 1
    /\ call.index = -2

---------------------------------------------------------------------------
(* The parallel map of _run_several_circuits, task by task.  A task is    *)
(* [circuit, running, st, set, graph]: the graph it was given, its running *)
(* pass manager, the state of its run, the pass set it runs next, and the *)
(* position of its graph in the list.                                      *)

\* Whether run hands the circuits to _run_several_circuits.
runs_several(self, circuits, output_name, callback) ==
    /\ ~(self.pass_sets = <<>> /\ output_name = None /\ ~callback)
    /\ circuits.kind = "list"
    /\ Len(circuits.items) # 1

\* The task as _in_parallel starts it: the running pass manager is built from
\* the task's copy of the manager, and the run starts on the property set of
\* that running pass manager.
in_parallel_start(circuit, pm_dill, graph) ==
    LET running_passmanager == create_running_passmanager(pm_dill)
    IN  [circuit |-> circuit,
         running |-> running_passmanager,
         st |-> [ops |-> circuit.ops, property_set |-> running_passmanager.property_set,
                 events |-> <<>>, count |-> 0, raised |-> None],
         set |-> 1,
         graph |-> graph]

TaskDone(t) == t.set > Len(t.running.working_list) \/ t.st.raised # None

\* One pass set of a task's run.
task_ran(t) ==
    [t EXCEPT !.st = run_controller(t.running.working_list[t.set].passes,
                                    t.running.working_list[t.set].flow_controllers,
                                    t.st, FALSE, t.running.max_iteration, t.set, t.graph),
              !.set = @ + 1]

\* The step of a task when all the tasks write one property set.
in_parallel_step_shared(tasks, i) ==
    LET t == task_ran(tasks[i])
    IN  [j \in DOMAIN tasks |->
            IF j = i THEN t
            ELSE [tasks[j] EXCEPT !.st.property_set = t.st.property_set]]

\* The step of task i: its next pass set, on its own graph and property set.
in_parallel_step(tasks, i) == [tasks EXCEPT ![i] = task_ran(tasks[i])]

RECURSIVE task_events(_, _)
task_events(tasks, i) ==
    IF i > Len(tasks) THEN <<>> ELSE tasks[i].st.events \o task_events(tasks, i + 1)

\* What the parallel map gives back once every task has ended: the results in
\* the order of the values, whatever the order the tasks ended in; a task's
\* exception is the map's.
parallel_map_collect(tasks) ==
    LET failed == {i \in DOMAIN tasks : tasks[i].st.raised # None}
        first == CHOOSE i \in failed : \A j \in failed : i <= j
        outputs == [i \in DOMAIN tasks |->
                       [name |-> tasks[i].circuit.name, ops |-> tasks[i].st.ops]]
    IN  [raised |-> IF failed = {} THEN None ELSE tasks[first].st.raised,
         results |-> outputs,
         graphs |-> outputs,
         events |-> task_events(tasks, 1)]

CircuitNames == <<"c1", "c2", "c3", "c4">>
FanCircuits ==
    {OneCircuit(Circuit("c1"))}
      \cup {CircuitList([i \in 1..n |-> Circuit(CircuitNames[i])]) : n \in 0..MaxCircuits}
FanSets ==
    { PassSet(List(<<PassA, PassB>>), NoFlow),
      PassSet(List(<<PassA, PassB>>), Condition("count_lt_1")),
      PassSet(List(<<PassB, PassX, PassA>>), NoFlow) }

\* run, up to the return of a run that is not handed to the parallel map, or
\* up to the start of the tasks of one that is.
FanRun ==
    \E circuits \in FanCircuits, opt \in RunOptions :
        /\ fan.phase # "running"
        /\ call' = Call("run", 0, NoPasses, 0, circuits, opt.output_name, opt.callback)
        /\ IF runs_several(pm, circuits, opt.output_name, opt.callback)
           THEN /\ fan' = [phase |-> "running",
                           pm_dill |-> Before(pm),
                           tasks |-> [i \in 1..Len(circuits.items) |->
                                         in_parallel_start(circuits.items[i], Before(pm), i)],
                           finished |-> <<>>]
                /\ pm' = Before(pm)
                /\ err' = None /\ result' = NoResult /\ graphs' = <<>> /\ events' = <<>>
           ELSE /\ \E o \in {run(Before(pm), circuits, opt.output_name, opt.callback)} :
                      /\ pm' = o.self
                      /\ err' = o.raised
                      /\ result' = o.result
                      /\ graphs' = o.graphs
                      /\ events' = o.events
                /\ fan' = NoFan
        /\ total' = <<>>
        /\ UNCHANGED <<other, staged, sched, adapt>>

\* A worker runs the next pass set of its task.
FanWork ==
    \E i \in DOMAIN fan.tasks :
        /\ fan.phase = "running"
        /\ ~TaskDone(fan.tasks[i])
        /\ \E ts \in {in_parallel_step(fan.tasks, i)} :
               fan' = [fan EXCEPT !.tasks = ts,
                                  !.finished = IF TaskDone(ts[i]) THEN Append(@, i) ELSE @]
        /\ UNCHANGED <<pm, other, total, call, err, result, graphs, events, staged, sched, adapt>>

\* Every task has ended: the parallel map returns and run returns its list.
FanCollect ==
    /\ fan.phase = "running"
    /\ \A i \in DOMAIN fan.tasks : TaskDone(fan.tasks[i])
    /\ \E m \in {parallel_map_collect(fan.tasks)} :
           /\ err' = m.raised
           /\ result' = IF m.raised # None THEN NoResult ELSE CircuitList(m.results)
           /\ graphs' = m.graphs
           /\ events' = m.events
    /\ fan' = [fan EXCEPT !.phase = "collected"]
    /\ UNCHANGED <<pm, other, total, call, staged, sched, adapt>>

\* Runs of a manager whose lists of graphs go through the parallel map, the
\* workers taking their steps in any order.
NextFan ==
    \/ (fan.phase # "running" /\ CallAppend(FanSets, {0}))
    \/ FanRun
    \/ FanWork
    \/ FanCollect
SpecFan == Init /\ [][NextFan]_vars

\* The operations the manager's pass sets put on a graph given alone.
Transformed(self, circuit) == in_parallel(circuit, self, 1).graph.ops

\* C11: run given a list of n graphs returns a list of n results, the i-th the
\* transformation of the i-th graph given, whatever the order the workers
\* ended in; run given one graph returns one graph.
C11_ListInListOut ==
    (call.op = "run" /\ fan.phase # "running" /\ err = None) =>
        /\ call.circuits.kind = "circuit" => result.kind = "circuit"
        /\ call.circuits.kind = "list" =>
              /\ result.kind = "list"
              /\ Len(result.items) = Len(call.circuits.items)
              /\ \A i \in 1..Len(call.circuits.items) :
                    result.items[i].ops = Transformed(pm, call.circuits.items[i])

\* The writes of pass A in a task's own log.
OwnWrites(t) == Len(SelectSeq(t.st.events, LAMBDA e : e.ev = "pass" /\ e.name = "A"))

\* C12: while and after a list of graphs is processed, in every order of the
\* workers' steps, each task has the running pass manager built for it from the
\* manager's copy, its property set holds the writes of its own passes and no
\* others, a task that has ended has the graph and the property set a run of
\* that graph alone ends with, and the manager's pass sets are as they were.
C12_TasksShareNothing ==
    (call.op = "run" /\ fan.phase \in {"running", "collected"}) =>
        /\ pm.pass_sets = fan.pm_dill.pass_sets
        /\ \A i \in DOMAIN fan.tasks :
              LET t == fan.tasks[i]
                  alone == in_parallel(t.circuit, fan.pm_dill, i)
              IN  /\ t.running = create_running_passmanager(fan.pm_dill)
                  /\ t.st.property_set.count = OwnWrites(t)
                  /\ TaskDone(t) =>
                        /\ t.st.ops = alone.graph.ops
                        /\ t.st.property_set = alone.property_set
                        /\ t.st.raised = alone.raised

C12_Witness ==
    /\ call.op = "run" /\ fan.phase = "collected"
    /\ Len(fan.tasks) = 2
    /\ fan.finished = <<2, 1>>
    /\ Len(pm.pass_sets) = 2
    /\ FlowOf(1) = NoFlow /\ FlowOf(2).condition = "count_lt_1"
    /\ \A i \in 1..2 : fan.tasks[i].st.property_set.count = 1
    /\ result = CircuitList(<<[name |-> "c1", ops |-> <<"A", "B">>],
                             [name |-> "c2", ops |-> <<"A", "B">>]>>)

---------------------------------------------------------------------------
(* StagedPassManager.  A name (a stage, an attribute) is the sequence of   *)
(* its characters.  The managers the slots hold are objects the client     *)
(* also holds: heap is the list of them, a slot holds the position of one  *)
(* in heap, or 0 for Python's None.  A staged manager is                   *)
(*   [stages, attrs, pass_sets, max_iteration, property_set]               *)
(* where attrs maps the names of the attributes set so far to what they    *)
(* hold.                                                                   *)

\* The default of the max_iteration parameter of PassManager.__init__.
DefaultMaxIteration == 1000

Range(f) == {f[i] : i \in DOMAIN f}

pre_ == <<"p", "r", "e", "_">>
post_ == <<"p", "o", "s", "t", "_">>

\* Python's str.startswith and the slice attr[n:].
startswith(attr, prefix) ==
    Len(attr) >= Len(prefix) /\ SubSeq(attr, 1, Len(prefix)) = prefix
slice_from(attr, n) == SubSeq(attr, n + 1, Len(attr))

\* invalid_stage_regex: a whitespace character or one of the listed signs,
\* anywhere in the name.
invalid_stage_characters ==
    { " ", "\t", "\n", "+", "-", "*", "/", "\\", "%", "<", ">", "@", "!", "~", "^",
      "&", ":", "[", "]", "{", "}", "(", ")" }
invalid_stage_regex_search(stage) ==
    \E i \in DOMAIN stage : stage[i] \in invalid_stage_characters

\* The stages argument left out (None), or a list of names.
NoStages == [given |-> FALSE, list |-> <<>>]
Stages(names) == [given |-> TRUE, list |-> names]

DefaultStages ==
    << <<"i", "n", "i", "t">>,
       <<"l", "a", "y", "o", "u", "t">>,
       <<"r", "o", "u", "t", "i", "n", "g">>,
       <<"t", "r", "a", "n", "s", "l", "a", "t", "i", "o", "n">>,
       <<"o", "p", "t", "i", "m", "i", "z", "a", "t", "i", "o", "n">>,
       <<"s", "c", "h", "e", "d", "u", "l", "i", "n", "g">> >>

\* getattr(self, name, None) and object.__setattr__ on the attributes.
getattr(self, name) == IF name \in DOMAIN self.attrs THEN self.attrs[name] ELSE 0
object_setattr(self, attr, value) ==
    [self EXCEPT !.attrs = [n \in DOMAIN @ \cup {attr} |->
                               IF n = attr THEN value ELSE @[n]]]

\* The pass sets of the manager a slot holds; none for a slot holding None.
slot_pass_sets(self, heap, name) ==
    IF getattr(self, name) = 0 THEN <<>> ELSE heap[getattr(self, name)].pass_sets

RECURSIVE update_passmanager_stage_first(_, _, _)
\* The loop of _update_passmanager with the stage taken before its pre-stage.
update_passmanager_stage_first(self, heap, i) ==
    IF i > Len(self.stages) THEN self
    ELSE LET stage == self.stages[i]
             extended == [self EXCEPT !.pass_sets =
                             @ \o slot_pass_sets(self, heap, stage)
                               \o slot_pass_sets(self, heap, pre_ \o stage)
                               \o slot_pass_sets(self, heap, post_ \o stage)]
         IN  update_passmanager_stage_first(extended, heap, i + 1)

RECURSIVE update_passmanager_from(_, _, _)
\* The loop of _update_passmanager from the i-th stage on.
update_passmanager_from(self, heap, i) ==
    IF i > Len(self.stages) THEN self
    ELSE LET stage == self.stages[i]
             extended == [self EXCEPT !.pass_sets =
                             @ \o slot_pass_sets(self, heap, pre_ \o stage)
                               \o slot_pass_sets(self, heap, stage)
                               \o slot_pass_sets(self, heap, post_ \o stage)]
         IN  update_passmanager_from(extended, heap, i + 1)

update_passmanager(self, heap) ==
    update_passmanager_from([self EXCEPT !.pass_sets = <<>>], heap, 1)

\* StagedPassManager.__setattr__: the attribute is stored, and the pass sets
\* are flattened again when the condition of lines 447-451 holds.
StagedPassManager_setattr(self, heap, attr, value) ==
    LET stored == object_setattr(self, attr, value)
    IN  IF \/ attr \in Range(self.stages)
           \/ (startswith(attr, pre_) /\ slice_from(attr, 4) \notin Range(self.stages))
           \/ (startswith(attr, post_) /\ slice_from(attr, 5) \notin Range(self.stages))
        THEN update_passmanager(stored, heap)
        ELSE stored

\* A staged manager before __init__ has set anything, and no manager at all.
NewStaged(stages) ==
    [stages |-> stages, attrs |-> <<>>, pass_sets |-> <<>>,
     max_iteration |-> DefaultMaxIteration, property_set |-> NoPropertySet]
NoManager == NewStaged(<<>>)

RECURSIVE init_slots(_, _, _)
\* The loop of lines 413-418: every slot of every stage is set to None.
init_slots(self, heap, i) ==
    IF i > Len(self.stages) THEN self
    ELSE LET stage == self.stages[i]
             s1 == StagedPassManager_setattr(self, heap, pre_ \o stage, 0)
             s2 == StagedPassManager_setattr(s1, heap, stage, 0)
             s3 == StagedPassManager_setattr(s2, heap, post_ \o stage, 0)
         IN  init_slots(s3, heap, i + 1)

RECURSIVE init_kwargs_unchecked(_, _, _, _)
\* The loop over the keyword arguments without the test of their names.
init_kwargs_unchecked(self, heap, kwargs, i) ==
    IF i > Len(kwargs) THEN Outcome(self, None)
    ELSE init_kwargs_unchecked(
             StagedPassManager_setattr(self, heap, kwargs[i].stage, kwargs[i].pm),
             heap, kwargs, i + 1)

RECURSIVE init_kwargs(_, _, _, _)
\* The loop of lines 419-426 over the keyword arguments, in the order given.
init_kwargs(self, heap, kwargs, i) ==
    IF i > Len(kwargs) THEN Outcome(self, None)
    ELSE LET stage == kwargs[i].stage
         IN  IF /\ stage \notin Range(self.stages)
                /\ ~(startswith(stage, pre_) /\ slice_from(stage, 4) \in Range(self.stages))
                /\ ~(startswith(stage, post_) /\ slice_from(stage, 5) \in Range(self.stages))
             THEN Outcome(self, "AttributeError")
             ELSE init_kwargs(StagedPassManager_setattr(self, heap, stage, kwargs[i].pm),
                              heap, kwargs, i + 1)

\* StagedPassManager.__init__: the manager built, or the exception raised.
StagedPassManager_init(stages, kwargs, heap) ==
    IF stages.given /\ \E i \in DOMAIN stages.list : invalid_stage_regex_search(stages.list[i])
    THEN Outcome(NoManager, "ValueError")
    ELSE LET names == IF stages.given THEN stages.list ELSE DefaultStages
             k == init_kwargs(init_slots(NewStaged(names), heap, 1), heap, kwargs, 1)
         IN  IF k.raised # None THEN Outcome(NoManager, k.raised)
             ELSE Outcome(update_passmanager(k.self, heap), None)

\* What a call on a staged manager gives back.
NoReturn == [kind |-> "None", length |-> 0, items |-> <<>>, graphs |-> <<>>]
StagedOutcome(self, raised, returned) ==
    [self |-> self, raised |-> raised, returned |-> returned]

\* append that is left to PassManager.append.
StagedPassManager_append_inherited(self, passes, max_iteration, flow_controller_conditions) ==
    LET o == append(self, passes, max_iteration, flow_controller_conditions)
    IN  StagedOutcome(o.self, o.raised, NoReturn)

\* The pass-level methods of lines 454-487.
StagedPassManager_append(self, passes, max_iteration, flow_controller_conditions) ==
    StagedOutcome(self, "NotImplementedError", NoReturn)
StagedPassManager_replace(self, index, passes, max_iteration, flow_controller_conditions) ==
    StagedOutcome(self, "NotImplementedError", NoReturn)
StagedPassManager_remove(self, index) ==
    StagedOutcome(self, "NotImplementedError", NoReturn)
StagedPassManager_setitem(self, index, item) ==
    StagedOutcome(self, "NotImplementedError", NoReturn)
StagedPassManager_add(self, rhs) ==
    StagedOutcome(self, "NotImplementedError", NoReturn)

\* PassManager.__getitem__ with an integer index: a new manager holding the
\* pass set at the index. The method StagedPassManager defines as __getitem
\* has another name and indexing does not reach it.
getitem(self, index) ==
    LET len == Len(self.pass_sets)
    IN  IF ~IndexExists(index, len) THEN StagedOutcome(self, "IndexError", NoReturn)
        ELSE StagedOutcome(self, None,
                 [kind |-> "PassManager", length |-> 1,
                  items |-> <<self.pass_sets[Position(index, len)]>>, graphs |-> <<>>])

\* PassManager.passes: the passes of every pass set and the names of the flow
\* controllers given with it.
PassManager_passes(self) ==
    [i \in 1..Len(self.pass_sets) |->
        [passes |-> self.pass_sets[i].passes,
         flow_controllers |->
            {k \in {"condition", "do_while"} : self.pass_sets[i].flow_controllers[k] # None}]]

StagedPassManager_len(self, heap) ==
    LET updated == update_passmanager(self, heap)
    IN  StagedOutcome(updated, None,
            [kind |-> "int", length |-> Len(updated.pass_sets), items |-> <<>>,
             graphs |-> <<>>])

StagedPassManager_passes(self, heap) ==
    LET updated == update_passmanager(self, heap)
    IN  StagedOutcome(updated, None,
            [kind |-> "list", length |-> Len(updated.pass_sets), items |-> PassManager_passes(updated),
             graphs |-> <<>>])

\* run without the flattening of line 503.
StagedPassManager_run_stale(self, heap, circuits) ==
    LET o == run(self, circuits, None, FALSE)
    IN  StagedOutcome(o.self, o.raised,
            [kind |-> o.result.kind, length |-> Len(o.result.items),
             items |-> o.result.items, graphs |-> o.graphs])

\* StagedPassManager.run: the pass sets are flattened, then PassManager.run.
\* The running pass manager PassManager.run asks for flattens them once more
\* (lines 489-491), from the same slots.
StagedPassManager_run(self, heap, circuits) ==
    LET updated == update_passmanager(self, heap)
        o == run(update_passmanager(updated, heap), circuits, None, FALSE)
    IN  StagedOutcome(o.self, o.raised,
            [kind |-> o.result.kind, length |-> Len(o.result.items),
             items |-> o.result.items, graphs |-> o.graphs])

---------------------------------------------------------------------------
(* The calls a client makes on a staged manager and on the managers of    *)
(* its slots.  staged is                                                   *)
(*   [exists, heap, self, op, arg, raised, returned, stale]                *)
(* the last call, what it raised and gave back, and stale, whether that    *)
(* call found flattened pass sets that were not those of the slots.        *)

StageA == <<"a">>
StageB == <<"b">>
StageC == <<"c">>
StageInit == <<"i", "n", "i", "t">>

StagedArg(stages, kwargs, attr, value, index) ==
    [stages |-> stages, kwargs |-> kwargs, attr |-> attr, value |-> value, index |-> index]
NoArg == StagedArg(NoStages, <<>>, <<>>, 0, 0)

Kwarg(stage, ref) == [stage |-> stage, pm |-> ref]

ConstructStages ==
    { NoStages,
      Stages(<<StageA>>),
      Stages(<<StageA, StageB>>),
      Stages(<<StageA, <<"a", " ", "b">> >>),
      Stages(<<<<"b", "-">>, StageA>>) }
ConstructKwargs ==
    { <<>>,
      <<Kwarg(StageA, 1)>>,
      <<Kwarg(pre_ \o StageA, 1), Kwarg(post_ \o StageB, 2)>>,
      <<Kwarg(StageA, 1), Kwarg(pre_ \o StageC, 2)>>,
      <<Kwarg(post_ \o StageInit, 2)>> }
AssignNames == {StageA, pre_ \o StageA, pre_ \o StageC, StageC}
RunStages == {Stages(<<StageA>>), Stages(<<StageB, StageA>>)}
RunKwargs == {<<>>, <<Kwarg(post_ \o StageA, 2), Kwarg(StageA, 1)>>}
RunNames == {StageA, pre_ \o StageA, post_ \o StageB}
StageSets == {List(<<PassB>>)}
StagedIndexes == {0, 1, -1}
StagedCircuits == {OneCircuit(Circuit("c1")), CircuitList(<<Circuit("c1"), Circuit("c2")>>)}
Mutations == {"append", "replace", "remove", "setitem", "add"}

\* The managers the client holds: one it appends to, one that stays as it is.
InitHeap ==
    << append(PassManager_init(DefaultMaxIteration), PassA, 0, NoFlow).self,
       append(append(PassManager_init(DefaultMaxIteration),
                     BasePass("C"), 0, NoFlow).self,
              BasePass("D"), 0, NoFlow).self >>

InitStaged ==
    /\ pm = PassManager_init(1)
    /\ other = PassManager_init(1)
    /\ total = <<>>
    /\ call = Call("init", 0, NoPasses, 0, NoCircuits, None, FALSE)
    /\ err = None
    /\ result = NoResult
    /\ graphs = <<>>
    /\ events = <<>>
    /\ fan = NoFan
    /\ sched = NoSched
    /\ adapt = NoAdapt
    /\ staged = [exists |-> FALSE, heap |-> InitHeap, self |-> NoManager, op |-> "none",
                 arg |-> NoArg, raised |-> None, returned |-> NoReturn, stale |-> FALSE]

\* The flattened pass sets are not those of the slots as they are now.
Stale == staged.self.pass_sets # update_passmanager(staged.self, staged.heap).pass_sets

StagedCalled(op, arg, o) ==
    /\ staged' = [staged EXCEPT !.self = o.self, !.op = op, !.arg = arg,
                                !.raised = o.raised, !.returned = o.returned,
                                !.stale = Stale]
    /\ UNCHANGED <<pm, other, total, call, err, result, graphs, events, fan, sched, adapt>>

StagedConstruct(StagesGiven, KwargsGiven) ==
    \E stages \in StagesGiven, kwargs \in KwargsGiven :
        /\ ~staged.exists
        /\ \E o \in {StagedPassManager_init(stages, kwargs, staged.heap)} :
               staged' = [staged EXCEPT !.exists = (o.raised = None), !.self = o.self,
                                        !.op = "init",
                                        !.arg = StagedArg(stages, kwargs, <<>>, 0, 0),
                                        !.raised = o.raised, !.returned = NoReturn,
                                        !.stale = FALSE]
        /\ UNCHANGED <<pm, other, total, call, err, result, graphs, events, fan, sched, adapt>>

StagedSetattr(Attrs) ==
    \E attr \in Attrs, value \in 0..Len(staged.heap) :
        /\ staged.exists
        /\ \E self \in {StagedPassManager_setattr(staged.self, staged.heap, attr, value)} :
               StagedCalled("setattr", StagedArg(NoStages, <<>>, attr, value, 0),
                            StagedOutcome(self, None, NoReturn))

StagedMutation ==
    \E op \in Mutations :
        /\ staged.exists
        /\ \E o \in {CASE op = "append" ->
                            StagedPassManager_append(staged.self, PassA, 0, NoFlow)
                        [] op = "replace" ->
                            StagedPassManager_replace(staged.self, 0, PassA, 0, NoFlow)
                        [] op = "remove" -> StagedPassManager_remove(staged.self, 0)
                        [] op = "setitem" -> StagedPassManager_setitem(staged.self, 0, PassA)
                        [] op = "add" -> StagedPassManager_add(staged.self, staged.heap[1])} :
               StagedCalled(op, NoArg, o)

StagedGetitem ==
    \E index \in StagedIndexes :
        /\ staged.exists
        /\ \E o \in {getitem(staged.self, index)} :
               StagedCalled("getitem", StagedArg(NoStages, <<>>, <<>>, 0, index), o)

StagedLen ==
    /\ staged.exists
    /\ \E o \in {StagedPassManager_len(staged.self, staged.heap)} :
           StagedCalled("len", NoArg, o)

StagedPasses ==
    /\ staged.exists
    /\ \E o \in {StagedPassManager_passes(staged.self, staged.heap)} :
           StagedCalled("passes", NoArg, o)

StagedRun ==
    \E circuits \in StagedCircuits :
        /\ staged.exists
        /\ \E o \in {StagedPassManager_run(staged.self, staged.heap, circuits)} :
               StagedCalled("run", NoArg, o)

\* The client appends a pass set to the first manager it holds, which a slot
\* of the staged manager may hold as well.
StageAppend ==
    \E set \in StageSets :
        /\ Len(staged.heap[1].pass_sets) < MaxSets
        /\ staged' = [staged EXCEPT !.heap[1] = append(@, set, 0, NoFlow).self,
                                    !.op = "stage.append", !.arg = NoArg,
                                    !.raised = None, !.returned = NoReturn,
                                    !.stale = Stale]
        /\ UNCHANGED <<pm, other, total, call, err, result, graphs, events, fan, sched, adapt>>

\* A staged manager under construction, slot assignment, indexing and the
\* pass-level methods.
NextStaged ==
    \/ StagedConstruct(ConstructStages, ConstructKwargs)
    \/ StagedSetattr(AssignNames)
    \/ StagedMutation
    \/ StagedGetitem
SpecStaged == InitStaged /\ [][NextStaged]_vars

\* A staged manager under slot assignment, appends to a manager it holds, and
\* len, passes and run.
NextStagedRun ==
    \/ StagedConstruct(RunStages, RunKwargs)
    \/ StagedSetattr(RunNames)
    \/ StageAppend
    \/ StagedLen
    \/ StagedPasses
    \/ StagedRun
SpecStagedRun == InitStaged /\ [][NextStagedRun]_vars

---------------------------------------------------------------------------
(* Properties of a staged manager *)

\* name is a stage of the declared ones, or pre_ or post_ and one of them.
SlotOf(name, declared) ==
    \/ name \in declared
    \/ \E stage \in declared : name = pre_ \o stage \/ name = post_ \o stage

\* The pass sets of the manager the slot holds now.
SlotSets(name) ==
    IF name \in DOMAIN staged.self.attrs /\ staged.self.attrs[name] # 0
    THEN staged.heap[staged.self.attrs[name]].pass_sets
    ELSE <<>>

RECURSIVE Flattening(_)
\* The slots as they are now, flattened from the i-th declared stage on:
\* pre-stage, stage, post-stage.
Flattening(i) ==
    IF i > Len(staged.self.stages) THEN <<>>
    ELSE SlotSets(pre_ \o staged.self.stages[i])
           \o SlotSets(staged.self.stages[i])
           \o SlotSets(post_ \o staged.self.stages[i])
           \o Flattening(i + 1)

\* C13: constructing a staged manager succeeds only when no stage name given
\* holds a whitespace or a blacklisted sign and every keyword is a declared
\* stage or pre_/post_ and a declared stage; otherwise the constructor raises
\* and no manager is produced.
C13_ConstructionValidates ==
    staged.op = "init" =>
        LET declared == IF staged.arg.stages.given THEN Range(staged.arg.stages.list)
                        ELSE Range(DefaultStages)
            valid == /\ \A stage \in declared :
                           \A i \in DOMAIN stage : stage[i] \notin invalid_stage_characters
                     /\ \A k \in DOMAIN staged.arg.kwargs :
                           SlotOf(staged.arg.kwargs[k].stage, declared)
        IN  /\ staged.exists => (valid /\ staged.raised = None)
            /\ ~valid => /\ staged.raised \in {"ValueError", "AttributeError"}
                         /\ ~staged.exists
                         /\ staged.self = NoManager

C13_Witness ==
    /\ staged.op = "init" /\ ~staged.exists
    /\ staged.raised = "AttributeError"
    /\ staged.arg.stages = Stages(<<StageA>>)
    /\ staged.arg.kwargs = <<Kwarg(StageA, 1), Kwarg(pre_ \o StageC, 2)>>

\* C14: assigning an attribute that is no slot of a declared stage raises a
\* configuration error and leaves the flattened pass sets as they were.
C14_UnknownSlotRejected ==
    [][ (staged'.op = "setattr"
           /\ ~SlotOf(staged'.arg.attr, Range(staged.self.stages)))
            => /\ staged'.raised # None
               /\ staged'.self.pass_sets = staged.self.pass_sets ]_vars

\* C16: append, replace, remove, indexed assignment and + on a staged manager
\* raise, and leave the slots, the managers they hold and the flattened pass
\* sets as they were; of the calls made on the staged manager, only the
\* assignment of a slot changes what it runs.
C16_PassLevelMutationRejected ==
    [][ /\ staged'.op \in Mutations =>
              /\ staged'.raised = "NotImplementedError"
              /\ staged'.self = staged.self
              /\ staged'.heap = staged.heap
        /\ (staged.exists /\ staged'.exists
              /\ update_passmanager(staged'.self, staged'.heap).pass_sets
                   # update_passmanager(staged.self, staged.heap).pass_sets)
              => staged'.op \in {"setattr", "stage.append"} ]_vars

C16_Witness ==
    /\ staged.op = "append" /\ staged.raised = "NotImplementedError"
    /\ staged.self.stages = <<StageA, StageB>>
    /\ staged.self.pass_sets = staged.heap[1].pass_sets \o staged.heap[2].pass_sets
    /\ staged.self.pass_sets = Flattening(1)

\* C17: right after the assignment of a stage, pre-stage or post-stage slot
\* of a declared stage, with no run, passes or len in between, indexing the
\* manager reads the flattening of the slots as they are now.
C17_AssignmentReflattens ==
    (staged.op = "setattr" /\ SlotOf(staged.arg.attr, Range(staged.self.stages))) =>
        \A index \in StagedIndexes :
            LET read == getitem(staged.self, index)
                flat == getitem([staged.self EXCEPT !.pass_sets = Flattening(1)], index)
            IN  read.raised = flat.raised /\ read.returned = flat.returned

\* The kinds of slot of a stage, in the order of the flattening.
SlotKinds(stage) == <<pre_ \o stage, stage, post_ \o stage>>

\* C15: the flattened pass sets are, stage by stage in declared order, those
\* of the pre-stage manager, of the stage manager and of the post-stage
\* manager, each manager's in its own order; a slot holding None adds nothing
\* and every pass set of a slot's manager is there. It is what
\* _update_passmanager computes from any slots, and what the manager holds
\* after the constructor, len, passes and run.
C15_FlatteningOrder ==
    staged.exists =>
        LET flat == update_passmanager(staged.self, staged.heap).pass_sets
        IN  /\ flat = Flattening(1)
            /\ staged.op \in {"init", "len", "passes", "run"} => staged.self.pass_sets = flat
            /\ \A i \in 1..Len(staged.self.stages), k \in 1..3 :
                  LET sets == SlotSets(SlotKinds(staged.self.stages[i])[k])
                  IN  \A p \in 1..Len(sets) :
                          \E q \in 1..Len(flat) :
                              /\ flat[q] = sets[p]
                              /\ q >= p
                              /\ q <= Len(flat) - (Len(sets) - p)

C15_Witness ==
    /\ staged.exists /\ staged.op = "passes"
    /\ staged.self.stages = <<StageB, StageA>>
    /\ getattr(staged.self, post_ \o StageB) = 2
    /\ getattr(staged.self, pre_ \o StageA) = 2
    /\ getattr(staged.self, StageA) = 1
    /\ getattr(staged.self, post_ \o StageA) = 0
    /\ staged.self.pass_sets =
          staged.heap[2].pass_sets \o staged.heap[2].pass_sets \o staged.heap[1].pass_sets

RECURSIVE PassNames(_, _)
\* The names of the passes of the pass sets from the i-th on, in order.
PassNames(sets, i) ==
    IF i > Len(sets) THEN <<>>
    ELSE [p \in 1..Len(sets[i].passes.passes) |-> sets[i].passes.passes[p].name]
           \o PassNames(sets, i + 1)

\* C18: every run, passes() and len() of a staged manager works on the
\* flattening of the slots as they are at the call, with what was assigned and
\* what was appended to a slot's manager since; the calls leave the manager
\* holding that flattening, each pass set once.
C18_CallsSeeCurrentSlots ==
    (staged.op \in {"len", "passes", "run"}) =>
        /\ staged.raised = None
        /\ staged.self.pass_sets = Flattening(1)
        /\ staged.op = "len" => staged.returned.length = Len(Flattening(1))
        /\ staged.op = "passes" =>
              staged.returned.items =
                  [i \in 1..Len(Flattening(1)) |->
                      [passes |-> Flattening(1)[i].passes, flow_controllers |-> {}]]
        /\ staged.op = "run" =>
              /\ Len(staged.returned.graphs) >= 1
              /\ \A g \in 1..Len(staged.returned.graphs) :
                    staged.returned.graphs[g].ops = PassNames(Flattening(1), 1)
              /\ \A g \in 1..Len(staged.returned.items) :
                    staged.returned.items[g].ops = PassNames(Flattening(1), 1)

C18_Witness ==
    /\ staged.op = "run" /\ staged.stale
    /\ staged.self.stages = <<StageA>>
    /\ getattr(staged.self, StageA) = 1
    /\ getattr(staged.self, pre_ \o StageA) = 0
    /\ getattr(staged.self, post_ \o StageA) = 0
    /\ Len(staged.heap[1].pass_sets) = 2
    /\ staged.returned.kind = "circuit"
    /\ staged.returned.items[1].ops = <<"A", "B">>

---------------------------------------------------------------------------
(* The scheduling passes ASAPSchedule and ALAPSchedule.  A circuit graph   *)
(* is [physical, qubits, clbits, ops, calibrations, duration, unit]:       *)
(* physical holds when the only quantum register is "q"; ops are the       *)
(* operation nodes in a topological order; duration and unit are set on a  *)
(* scheduled graph.  A duration is <<>> for Python's None, or <<d>>.       *)

Instruction(name, qargs, cargs, condition_bits, duration) ==
    [name |-> name, qargs |-> qargs, cargs |-> cargs,
     condition_bits |-> condition_bits, duration |-> duration]

DAGCircuit(physical, qubits, clbits, ops, calibrations) ==
    [physical |-> physical, qubits |-> qubits, clbits |-> clbits, ops |-> ops,
     calibrations |-> calibrations, duration |-> <<>>, unit |-> None]

\* dag.topological_op_nodes(): the operation nodes, dependencies first.
topological_op_nodes(dag) == dag.ops
Reverse(seq) == [i \in 1..Len(seq) |-> seq[Len(seq) + 1 - i]]

\* dag.has_calibration_for(node) and the duration of that calibration.
calibrations_for(dag, node) ==
    {c \in dag.calibrations : c.name = node.name /\ c.qubits = node.qargs}
has_calibration_for(dag, node) == calibrations_for(dag, node) # {}
calibrated_duration(dag, node) ==
    (CHOOSE c \in calibrations_for(dag, node) : TRUE).duration

\* What a scheduling pass gives back: the exception raised, the new graph
\* when there is none, and the graph given as the pass left it.
NotRun ==
    [ran |-> FALSE, raised |-> None,
     dag |-> DAGCircuit(FALSE, 0, 0, <<>>, {}),
     given |-> DAGCircuit(FALSE, 0, 0, <<>>, {})]
Scheduled(raised, new_dag, dag) ==
    [ran |-> TRUE, raised |-> raised, dag |-> new_dag, given |-> dag]

\* The maximum of a non-empty set of numbers.
max(values) == CHOOSE v \in values : \A w \in values : w <= v

\* The body of the loop over the nodes for the i-th node visited (asap.py
\* lines 74-91, alap.py lines 73-90).  A node without a duration takes the one
\* of its calibration, written to the node of the graph given; without either
\* the pass raises TranspilerError.  The next statement reads the name
\* ParameterExpression, which the module neither imports nor defines: Python
\* raises NameError there, for every node that has a duration.
validate_duration(dag, i) ==
    LET node == dag.ops[i]
        resolved == IF node.duration = <<>> /\ has_calibration_for(dag, node)
                    THEN [dag EXCEPT !.ops[i].duration = <<calibrated_duration(dag, node)>>]
                    ELSE dag
    IN  IF resolved.ops[i].duration = <<>>
        THEN [raised |-> "TranspilerError", dag |-> resolved]
        ELSE [raised |-> "NameError", dag |-> resolved]

\* The graph a pass returns for a graph without operation nodes: no bit has
\* been busy, the duration is 0 and no Delay is added (asap.py lines 117-131).
scheduled_empty(dag, time_unit) ==
    LET idle == [bit \in 1..(dag.qubits + dag.clbits) |-> 0]
        circuit_duration == max(Range(idle))
    IN  [dag EXCEPT !.ops = <<>>, !.duration = <<circuit_duration>>, !.unit = time_unit]

\* ASAPSchedule.run: the nodes are visited in topological order, and the
\* first node visited ends the pass with an exception.
ASAPSchedule_run(dag, time_unit) ==
    IF ~dag.physical
    THEN Scheduled("TranspilerError", NotRun.dag, dag)
    ELSE IF topological_op_nodes(dag) = <<>>
    THEN Scheduled(None, scheduled_empty(dag, time_unit), dag)
    ELSE LET v == validate_duration(dag, 1)
         IN  Scheduled(v.raised, NotRun.dag, v.dag)

\* ALAPSchedule.run: the same on the nodes in reversed topological order.
ALAPSchedule_run(dag, time_unit) ==
    IF ~dag.physical
    THEN Scheduled("TranspilerError", NotRun.dag, dag)
    ELSE IF Reverse(topological_op_nodes(dag)) = <<>>
    THEN Scheduled(None, scheduled_empty(dag, time_unit), dag)
    ELSE LET v == validate_duration(dag, Len(dag.ops))
         IN  Scheduled(v.raised, NotRun.dag, v.dag)

\* The circuits given to the passes: two qubits and one clbit, operations
\* with and without a duration, one the calibration table never has a
\* duration for, a measurement, a conditioned gate.
SchedOps ==
    { Instruction("x", <<0>>, <<>>, <<>>, <<1>>),
      Instruction("x", <<0>>, <<>>, <<>>, <<>>),
      Instruction("y", <<0>>, <<>>, <<>>, <<2>>),
      Instruction("h", <<1>>, <<>>, <<>>, <<>>),
      Instruction("measure", <<0>>, <<0>>, <<>>, <<2>>),
      Instruction("x", <<1>>, <<>>, <<0>>, <<1>>) }
SchedCalibrations == { {}, {[name |-> "x", qubits |-> <<0>>, duration |-> 3]} }
RECURSIVE SeqsUpTo(_, _)
SeqsUpTo(S, n) ==
    IF n = 0 THEN {<<>>}
    ELSE SeqsUpTo(S, n - 1)
           \cup {Append(q, x) : q \in {r \in SeqsUpTo(S, n - 1) : Len(r) = n - 1}, x \in S}
SchedDags ==
    { DAGCircuit(physical, 2, 1, ops, calibrations) :
        physical \in BOOLEAN, ops \in SeqsUpTo(SchedOps, MaxOps),
        calibrations \in SchedCalibrations }

\* sched is [given, dag, time_unit, op, asap, alap, again, again_of]: the
\* graph as it was given, the graph as the passes left it, the last call, what
\* each pass gave back for the graph, and what the pass again_of gave back
\* for its own output.
InitSched ==
    /\ pm = PassManager_init(1)
    /\ other = PassManager_init(1)
    /\ total = <<>>
    /\ call = Call("init", 0, NoPasses, 0, NoCircuits, None, FALSE)
    /\ err = None
    /\ result = NoResult
    /\ graphs = <<>>
    /\ events = <<>>
    /\ fan = NoFan
    /\ staged = NoStaged
    /\ adapt = NoAdapt
    /\ \E dag \in SchedDags :
          sched = [exists |-> TRUE, given |-> dag, dag |-> dag, time_unit |-> "dt",
                   op |-> "none", asap |-> NotRun, alap |-> NotRun, again |-> NotRun,
                   again_of |-> "asap"]

RunASAP ==
    /\ ~sched.asap.ran
    /\ \E r \in {ASAPSchedule_run(sched.dag, sched.time_unit)} :
           sched' = [sched EXCEPT !.asap = r, !.dag = r.given, !.op = "asap"]
    /\ UNCHANGED <<pm, other, total, call, err, result, graphs, events, fan, staged, adapt>>

RunALAP ==
    /\ ~sched.alap.ran
    /\ \E r \in {ALAPSchedule_run(sched.dag, sched.time_unit)} :
           sched' = [sched EXCEPT !.alap = r, !.dag = r.given, !.op = "alap"]
    /\ UNCHANGED <<pm, other, total, call, err, result, graphs, events, fan, staged, adapt>>

\* The pass on its own output, run(run(dag)): the exception of the first run
\* when it raised, else what the pass gives back for the graph it returned.
RunAgain ==
    \E first \in {"asap", "alap"} :
        /\ sched[first].ran
        /\ ~sched.again.ran
        /\ \E r \in {IF sched[first].raised # None THEN sched[first]
                     ELSE IF first = "asap"
                     THEN ASAPSchedule_run(sched[first].dag, sched.time_unit)
                     ELSE ALAPSchedule_run(sched[first].dag, sched.time_unit)} :
               sched' = [sched EXCEPT !.again = r, !.again_of = first, !.op = "again"]
        /\ UNCHANGED <<pm, other, total, call, err, result, graphs, events, fan, staged, adapt>>

NextSched == RunASAP \/ RunALAP \/ RunAgain
SpecSched == InitSched /\ [][NextSched]_vars

\* Every node of the graph has a duration or a calibration that gives one.
Resolved(dag) ==
    \A i \in DOMAIN dag.ops :
        dag.ops[i].duration # <<>> \/ has_calibration_for(dag, dag.ops[i])

\* The operations of a scheduled graph that are no idle operations.
Busy(dag) == {dag.ops[i] : i \in {j \in DOMAIN dag.ops : dag.ops[j].name # "delay"}}

\* C19: for a physical graph whose nodes all have resolved durations, ASAP
\* and ALAP scheduling both give a scheduled graph, of the same total span and
\* with the same operations but the idle ones, also with measurements and
\* conditioned operations.
C19_SameSpan ==
    (sched.asap.ran /\ sched.alap.ran /\ sched.given.physical /\ Resolved(sched.given)) =>
        /\ sched.asap.raised = None
        /\ sched.alap.raised = None
        /\ sched.asap.dag.duration = sched.alap.dag.duration
        /\ Busy(sched.asap.dag) = Busy(sched.alap.dag)

\* C20: either scheduler run on its own scheduled output gives that output
\* again: the same total span, the same operations at the same places, no
\* idle operation more.
C20_RescheduleIdempotent ==
    (sched.again.ran /\ sched.given.physical /\ Resolved(sched.given)) =>
        /\ sched[sched.again_of].raised = None
        /\ sched.again.raised = None
        /\ sched.again.dag.duration = sched[sched.again_of].dag.duration
        /\ sched.again.dag.ops = sched[sched.again_of].dag.ops

---------------------------------------------------------------------------
(* Properties of a schedule.  A scheduled graph lists its operations, the  *)
(* idle ones (Delay, named "delay") included, in the order they were       *)
(* applied; on a qubit each starts when the one before it on that qubit    *)
(* ends.                                                                   *)

\* The operations of a graph on qubit q, in order.
OnQubit(dag, q) ==
    SelectSeq(dag.ops, LAMBDA op : \E k \in DOMAIN op.qargs : op.qargs[k] = q)

\* The sum of the durations of a list of operations that all have one.
RECURSIVE TotalDuration(_)
TotalDuration(ops) ==
    IF ops = <<>> THEN 0 ELSE Head(ops).duration[1] + TotalDuration(Tail(ops))

\* A dependency chain on qubit 0: every operation is on that qubit alone,
\* touches no clbit, has no condition and has a duration.
Chain(dag) ==
    /\ dag.physical
    /\ dag.ops # <<>>
    /\ \A i \in DOMAIN dag.ops :
          /\ dag.ops[i].qargs = <<0>>
          /\ dag.ops[i].cargs = <<>>
          /\ dag.ops[i].condition_bits = <<>>
          /\ dag.ops[i].duration # <<>>

\* C21: ASAP scheduling packs a dependency chain on one qubit back to back:
\* the pass gives a scheduled graph whose operations on that qubit are those
\* of the chain with no idle operation between or after them, so that each
\* starts at the sum of the durations before it, and whose span is the sum of
\* all the durations.
C21_ChainPackedBackToBack ==
    (sched.asap.ran /\ Chain(sched.given)) =>
        /\ sched.asap.raised = None
        /\ OnQubit(sched.asap.dag, 0) = sched.given.ops
        /\ sched.asap.dag.duration = <<TotalDuration(sched.given.ops)>>

\* The idle operations of a scheduled graph.
Delays(dag) == {i \in DOMAIN dag.ops : dag.ops[i].name = "delay"}

\* C22: after either pass, on every qubit the durations of the operations
\* and of the idle operations on it sum to the span of the graph, every idle
\* operation has a positive length, and none is on a clbit.
C22_TracksFilledToSpan ==
    \A p \in {"asap", "alap"} :
        (sched[p].ran /\ sched.given.physical /\ Resolved(sched.given)) =>
            /\ sched[p].raised = None
            /\ \A q \in 0..(sched.given.qubits - 1) :
                  <<TotalDuration(OnQubit(sched[p].dag, q))>> = sched[p].dag.duration
            /\ \A i \in Delays(sched[p].dag) :
                  /\ sched[p].dag.ops[i].duration[1] > 0
                  /\ sched[p].dag.ops[i].cargs = <<>>

\* The time at which the i-th operation of a scheduled graph starts: the
\* durations of the operations before it on its first qubit.
StartOf(dag, i) ==
    TotalDuration(OnQubit([ops |-> SubSeq(dag.ops, 1, i - 1)], dag.ops[i].qargs[1]))

\* The pairs <<i, j>> of a graph where i is a measurement writing a clbit and
\* j a later operation conditioned on that clbit.
WrittenThenTested(dag) ==
    {ij \in (DOMAIN dag.ops) \X (DOMAIN dag.ops) :
        /\ ij[1] < ij[2]
        /\ dag.ops[ij[1]].name = "measure"
        /\ \E c \in Range(dag.ops[ij[1]].cargs) : c \in Range(dag.ops[ij[2]].condition_bits)}

\* C23: ASAP scheduling of a graph in which a measurement writes a clbit and
\* a later operation is conditioned on that clbit gives a schedule in which
\* the conditioned operation starts no earlier than the clbit is writeable
\* again, the time at which the measurement ends.
C23_ConditionWaitsForWrite ==
    (sched.asap.ran /\ sched.given.physical /\ Resolved(sched.given)
        /\ WrittenThenTested(sched.given) # {}) =>
        /\ sched.asap.raised = None
        /\ WrittenThenTested(sched.asap.dag) # {}
        /\ \A ij \in WrittenThenTested(sched.asap.dag) :
              StartOf(sched.asap.dag, ij[2])
                  >= StartOf(sched.asap.dag, ij[1]) + sched.asap.dag.ops[ij[1]].duration[1]

\* C24: a pass raises TranspilerError when the graph is not physical or has
\* a node with no duration and no calibration for it, and gives a scheduled
\* graph in every other case.
C24_FailsExactlyWhenUnresolvable ==
    \A p \in {"asap", "alap"} :
        sched[p].ran =>
            IF ~sched.given.physical \/ ~Resolved(sched.given)
            THEN sched[p].raised = "TranspilerError"
            ELSE sched[p].raised = None

\* The other pass.
OtherPass(p) == IF p = "asap" THEN "alap" ELSE "asap"

\* C25: a pass run on a physical graph that has a node whose duration cannot
\* be resolved fails and leaves the graph as it was when the pass was
\* entered: no node of it, the nodes visited before the failing one included,
\* has another duration, and no operation is added to it.
C25_FailureLeavesGraph ==
    \A p \in {"asap", "alap"} :
        (sched[p].ran /\ ~sched[OtherPass(p)].ran
            /\ sched.given.physical /\ ~Resolved(sched.given)) =>
            /\ sched[p].raised # None
            /\ sched[p].given = sched.given

---------------------------------------------------------------------------
(* AdaptQAOA.  A solver is                                                 *)
(*   [max_reps, threshold, mixer_pool, mixer_pool_type, optimal_mixer_list,*)
(*    reps, ansatz, _reps, _initial_state, _cost_operator]                 *)
(* A value that can be None is <<>> for None and <<v>> otherwise; a mixer   *)
(* is the string of its Pauli letters, an operator the number of its       *)
(* qubits, and an ansatz [qubits, mixers].                                 *)

\* AdaptQAOA.__init__.  The constructor of the parent class is given neither
\* an initial state nor an operator, so both stay None.
AdaptQAOA_init(max_reps, threshold, mixer_pool, mixer_pool_type) ==
    LET self == [max_reps |-> max_reps,
                 threshold |-> IF threshold = <<>> THEN <<"0.01">> ELSE threshold,
                 mixer_pool |-> mixer_pool,
                 mixer_pool_type |-> mixer_pool_type,
                 optimal_mixer_list |-> <<>>,
                 reps |-> 1,
                 ansatz |-> <<>>,
                 _reps |-> 0,
                 _initial_state |-> <<>>,
                 _cost_operator |-> <<>>]
    IN  IF mixer_pool # <<>> /\ mixer_pool_type # <<>>
        THEN [raised |-> "AttributeError", self |-> self]
        ELSE [raised |-> None, self |-> self]

\* The properties num_qubits and initial_state.
num_qubits(self) == IF self._cost_operator = <<>> THEN 0 ELSE self._cost_operator[1]
initial_state(self) ==
    IF self._initial_state # <<>> THEN self._initial_state
    ELSE IF num_qubits(self) > 0
    THEN <<[qubits |-> num_qubits(self), mixers |-> <<>>]>>
    ELSE <<>>

\* _test_mixer_pool: its first statement calls _check_problem_configuration
\* without the operator that method requires, and Python raises TypeError
\* before the body of either method has run.
test_mixer_pool(self, operator) == [raised |-> "TypeError", self |-> self]

\* compute_minimum_eigenvalue.  The layer counter and the ansatz are set
\* anew, the list of selected mixers is not.  The first pass through the loop
\* ends in _test_mixer_pool; when max_reps allows no pass at all, the return
\* statement reads result, which was never assigned.
compute_minimum_eigenvalue(self, operator) ==
    LET entered == [self EXCEPT !._reps = 1, !.ansatz = initial_state(self)]
    IN  IF entered._reps < entered.max_reps + 1
        THEN test_mixer_pool(entered, operator)
        ELSE [raised |-> "UnboundLocalError", self |-> entered]

\* The solvers built and the operators they are given.
AdaptThresholds == {<<>>, <<"0.5">>}
AdaptPools == {<<>>, <<<<"XX", "YY">>>>}
AdaptPoolTypes == {<<>>, <<"multi">>, <<"single">>}
AdaptOperators == {2, 3}

NoSolver == AdaptQAOA_init(0, <<>>, <<>>, <<>>).self

\* adapt is [exists, self, op, operator, raised, calls, before]: the solver,
\* the last call and the operator given to it, what it raised, the number of
\* calls of compute_minimum_eigenvalue made so far, and the mixers selected
\* before the last call.
InitAdapt ==
    /\ pm = PassManager_init(1)
    /\ other = PassManager_init(1)
    /\ total = <<>>
    /\ call = Call("init", 0, NoPasses, 0, NoCircuits, None, FALSE)
    /\ err = None
    /\ result = NoResult
    /\ graphs = <<>>
    /\ events = <<>>
    /\ fan = NoFan
    /\ staged = NoStaged
    /\ sched = NoSched
    /\ adapt = [exists |-> FALSE, self |-> NoSolver, op |-> "none", operator |-> 0,
                raised |-> None, calls |-> 0, before |-> <<>>]

AdaptConstruct ==
    /\ ~adapt.exists
    /\ adapt.raised = None
    /\ \E max_reps \in 0..MaxReps, threshold \in AdaptThresholds,
          mixer_pool \in AdaptPools, mixer_pool_type \in AdaptPoolTypes :
          \E o \in {AdaptQAOA_init(max_reps, threshold, mixer_pool, mixer_pool_type)} :
              adapt' = [adapt EXCEPT !.exists = (o.raised = None), !.self = o.self,
                                     !.op = "init", !.raised = o.raised]
    /\ UNCHANGED <<pm, other, total, call, err, result, graphs, events, fan, staged, sched>>

AdaptCompute ==
    /\ adapt.exists
    /\ adapt.calls < MaxCalls
    /\ \E operator \in AdaptOperators :
          \E o \in {compute_minimum_eigenvalue(adapt.self, operator)} :
              adapt' = [adapt EXCEPT !.self = o.self, !.op = "compute",
                                     !.operator = operator, !.raised = o.raised,
                                     !.calls = @ + 1,
                                     !.before = adapt.self.optimal_mixer_list]
    /\ UNCHANGED <<pm, other, total, call, err, result, graphs, events, fan, staged, sched>>

NextAdapt == AdaptConstruct \/ AdaptCompute
SpecAdapt == InitAdapt /\ [][NextAdapt]_vars

\* C26: a call of compute_minimum_eigenvalue gives a result after at most
\* max_reps layer iterations, with one mixer selected for each, so that the
\* ansatz it optimised has at most max_reps mixer layers and none of them was
\* selected during an earlier call on the solver.
C26_LayersBoundedPerCall ==
    adapt.op = "compute" =>
        /\ adapt.raised = None
        /\ adapt.self._reps - 1 <= adapt.self.max_reps
        /\ Len(adapt.self.optimal_mixer_list) = Len(adapt.before) + adapt.self._reps - 1
        /\ \A a \in Range(adapt.self.ansatz) :
              /\ Len(a.mixers) <= adapt.self.max_reps
              /\ a.mixers = SubSeq(adapt.self.optimal_mixer_list, Len(adapt.before) + 1,
                                   Len(adapt.self.optimal_mixer_list))

---------------------------------------------------------------------------
(* Properties of a schedule: clbits and order *)

\* The clbits an operation writes or is conditioned on.
Clbits(op) == Range(op.cargs) \cup Range(op.condition_bits)

\* The time at which the i-th operation of a scheduled graph ends, and the
\* same times counted backward from the end of the schedule.
EndOf(dag, i) == StartOf(dag, i) + dag.ops[i].duration[1]
StartFromEnd(dag, i) == dag.duration[1] - EndOf(dag, i)
EndFromEnd(dag, i) == dag.duration[1] - StartOf(dag, i)

\* The time from which clbit c is readable and writeable for the i-th
\* operation: the end of the last operation before it that involves c; and
\* the same counted backward over the operations after it.
AvailableAt(dag, i, c) ==
    max({0} \cup {EndOf(dag, j) : j \in {k \in 1..(i - 1) : c \in Clbits(dag.ops[k])}})
AvailableFromEnd(dag, i, c) ==
    max({0} \cup {EndFromEnd(dag, j) :
                    j \in {k \in (i + 1)..Len(dag.ops) : c \in Clbits(dag.ops[k])}})

\* The graph has an operation that involves a clbit.
UsesClbits(dag) == \E i \in DOMAIN dag.ops : Clbits(dag.ops[i]) # {}

\* C27: in an ASAP schedule an operation that is no measurement starts no
\* earlier than the readable time of each clbit it involves less its own
\* duration, and a measurement no earlier than the writeable time of each
\* clbit it writes; in an ALAP schedule the same holds for the times counted
\* backward from the end, with the offset on the measurement instead.
C27_ClbitOffsets ==
    /\ (sched.asap.ran /\ sched.given.physical /\ Resolved(sched.given)
            /\ UsesClbits(sched.given)) =>
          /\ sched.asap.raised = None
          /\ UsesClbits(sched.asap.dag)
          /\ \A i \in DOMAIN sched.asap.dag.ops : \A c \in Clbits(sched.asap.dag.ops[i]) :
                StartOf(sched.asap.dag, i) >=
                    AvailableAt(sched.asap.dag, i, c)
                      - (IF sched.asap.dag.ops[i].name = "measure" THEN 0
                         ELSE sched.asap.dag.ops[i].duration[1])
    /\ (sched.alap.ran /\ sched.given.physical /\ Resolved(sched.given)
            /\ UsesClbits(sched.given)) =>
          /\ sched.alap.raised = None
          /\ UsesClbits(sched.alap.dag)
          /\ \A i \in DOMAIN sched.alap.dag.ops : \A c \in Clbits(sched.alap.dag.ops[i]) :
                StartFromEnd(sched.alap.dag, i) >=
                    AvailableFromEnd(sched.alap.dag, i, c)
                      - (IF sched.alap.dag.ops[i].name = "measure"
                         THEN sched.alap.dag.ops[i].duration[1] ELSE 0)

---------------------------------------------------------------------------
(* Properties of a failed call on the pass sets *)

\* C28: an append, replace or remove that raises a configuration error leaves
\* the manager as it was before the call: the same pass sets in the same
\* order and the same max_iteration, also when the call was given a
\* max_iteration.
C28_FailedCallChangesNothing ==
    [][ (call'.op \in {"append", "replace", "remove"} /\ err' = "TranspilerError") =>
            /\ pm'.pass_sets = pm.pass_sets
            /\ pm'.max_iteration = pm.max_iteration ]_vars

---------------------------------------------------------------------------
(* Properties of a schedule: what a qubit carries *)

\* The operations of a list that are no idle operations, in order.
NotIdle(ops) == SelectSeq(ops, LAMBDA op : op.name # "delay")

\* The time at which the i-th operation of a scheduled graph starts on its
\* qubit q: the durations of the operations before it on q.
StartOn(dag, i, q) == TotalDuration(OnQubit([ops |-> SubSeq(dag.ops, 1, i - 1)], q))

\* C29: in the schedule either pass gives, an operation starts at one time on
\* all its qubits, so that no two operations on a qubit overlap, idle ones
\* included, and the operations on a qubit follow each other in the order of
\* the graph given.
C29_NoOverlapOnQubit ==
    \A p \in {"asap", "alap"} :
        (sched[p].ran /\ sched.given.physical /\ Resolved(sched.given)) =>
            /\ sched[p].raised = None
            /\ \A i \in DOMAIN sched[p].dag.ops : \A q \in Range(sched[p].dag.ops[i].qargs) :
                  StartOn(sched[p].dag, i, q) = StartOf(sched[p].dag, i)
            /\ \A i \in DOMAIN sched[p].dag.ops : \A j \in DOMAIN sched[p].dag.ops :
                  (i < j /\ Range(sched[p].dag.ops[i].qargs)
                               \cap Range(sched[p].dag.ops[j].qargs) # {})
                      => StartOf(sched[p].dag, j) >= EndOf(sched[p].dag, i)
            /\ \A q \in 0..(sched.given.qubits - 1) :
                  Len(NotIdle(OnQubit(sched[p].dag, q))) = Len(OnQubit(sched.given, q))

\* C30: the graph either pass returns holds the operations of the graph
\* given, each once, on the same qubits and clbits and in the same order;
\* what it holds besides are idle operations on qubits; and it has the
\* qubits, clbits and calibrations of the graph given.
C30_OnlyIdleOperationsAdded ==
    \A p \in {"asap", "alap"} :
        (sched[p].ran /\ sched.given.physical /\ Resolved(sched.given)) =>
            /\ sched[p].raised = None
            /\ NotIdle(sched[p].dag.ops) = sched[p].given.ops
            /\ \A i \in Delays(sched[p].dag) :
                  /\ Len(sched[p].dag.ops[i].qargs) = 1
                  /\ Clbits(sched[p].dag.ops[i]) = {}
            /\ sched[p].dag.qubits = sched.given.qubits
            /\ sched[p].dag.clbits = sched.given.clbits
            /\ sched[p].dag.calibrations = sched.given.calibrations

====
